---- MODULE Spec2Model ----
(***************************************************************************)
(* Model of src/main.py: a FastAPI application with three GET routes.      *)
(*                                                                         *)
(*   GET /       root()            {"status": "online", "timestamp": now}  *)
(*   GET /info   get_info()        the lru_cache'd PersonalInfo            *)
(*   GET /study  get_study_info()  a StudyInfo built for the request       *)
(*                                                                         *)
(* The process state is the wall clock, the class attribute holding the   *)
(* default of PersonalInfo.last_updated (main.py:20, evaluated when the    *)
(* class statement runs), the lru_cache dict of get_personal_info          *)
(* (main.py:31) and the requests in flight.  A path is the tuple of its    *)
(* segments after the leading "/" ("/info/" is <<"info", "">>), so that    *)
(* the router's trailing-slash rewrite is computed and not tabulated.      *)
(*                                                                         *)
(* The three coroutines contain no await, so on one event loop each runs   *)
(* without interruption.  The call of get_personal_info is nevertheless    *)
(* modelled in the three steps of the lru_cache wrapper (look up, call,    *)
(* store unless already stored): this admits every schedule of the event   *)
(* loop and also the schedules of callers on several threads.              *)
(***************************************************************************)
EXTENDS Integers, Sequences, FiniteSets, TLC

\* ---------------------------------------------------------------- bounds
MaxClock == 1
MaxReq == 2

Reqs == 1..MaxReq
Times == 0..MaxClock

\* ----------------------------------------------------------------- paths
RootPath == <<"">>
InfoPath == <<"info">>
StudyPath == <<"study">>
NopePath == <<"nope">>
DocsPath == <<"docs">>
InfoSlashPath == <<"info", "">>

Methods == {"GET", "POST"}
Paths == {RootPath, InfoPath, StudyPath, NopePath, DocsPath, InfoSlashPath}

\* The routes of app.router in registration order.  FastAPI(...) at
\* main.py:7 is built with the default openapi_url, docs_url and redoc_url,
\* so its setup registers the four documentation routes before the
\* decorators at main.py:45, 58 and 68 register the application routes.
Routes ==
  << [path |-> <<"openapi.json">>, methods |-> {"GET", "HEAD"}, endpoint |-> "openapi"],
     [path |-> <<"docs">>, methods |-> {"GET", "HEAD"}, endpoint |-> "swagger_ui_html"],
     [path |-> <<"docs", "oauth2-redirect">>, methods |-> {"GET", "HEAD"}, endpoint |-> "swagger_ui_redirect"],
     [path |-> <<"redoc">>, methods |-> {"GET", "HEAD"}, endpoint |-> "redoc_html"],
     [path |-> RootPath, methods |-> {"GET"}, endpoint |-> "root"],
     [path |-> InfoPath, methods |-> {"GET"}, endpoint |-> "get_info"],
     [path |-> StudyPath, methods |-> {"GET"}, endpoint |-> "get_study_info"] >>

AppEndpoints == {"root", "get_info", "get_study_info"}
DocEndpoints == {"openapi", "swagger_ui_html", "swagger_ui_redirect", "redoc_html"}

\* Route.matches: the path must match in full; a path match with a method
\* the route does not list is a partial match.
Match(route, method, path) ==
  IF route.path # path THEN "NONE"
  ELSE IF method \in route.methods THEN "FULL"
  ELSE "PARTIAL"

\* Router.app's trailing-slash rewrite: drop the slash a path ends with,
\* or add one.
ToggleSlash(path) ==
  IF path[Len(path)] = "" THEN SubSeq(path, 1, Len(path) - 1)
  ELSE Append(path, "")

FirstIndex(S) == CHOOSE k \in S : \A j \in S : k <= j

\* A mis-registration that serves a route for every method.
DispatchAnyMethod(method, path) ==
  LET hit == {k \in DOMAIN Routes : Routes[k].path = path}
  IN  IF hit # {} THEN [kind |-> "endpoint", endpoint |-> Routes[FirstIndex(hit)].endpoint]
      ELSE [kind |-> "status", status |-> 404]

\* A router whose fallback is the root route instead of not-found.
DispatchCatchAll(method, path) ==
  LET full == {k \in DOMAIN Routes : Match(Routes[k], method, path) = "FULL"}
      partial == {k \in DOMAIN Routes : Match(Routes[k], method, path) = "PARTIAL"}
  IN  IF full # {} THEN [kind |-> "endpoint", endpoint |-> Routes[FirstIndex(full)].endpoint]
      ELSE IF partial # {} THEN [kind |-> "status", status |-> 405]
      ELSE IF method = "GET" THEN [kind |-> "endpoint", endpoint |-> "root"]
      ELSE [kind |-> "status", status |-> 404]

\* Router.app: the first full match is served; else the first partial
\* match answers method-not-allowed; else a path other than "/" whose
\* slash-toggled form matches a route is redirected; else not-found.
Dispatch(method, path) ==
  LET full == {k \in DOMAIN Routes : Match(Routes[k], method, path) = "FULL"}
      partial == {k \in DOMAIN Routes : Match(Routes[k], method, path) = "PARTIAL"}
      other == ToggleSlash(path)
  IN  IF full # {} THEN [kind |-> "endpoint", endpoint |-> Routes[FirstIndex(full)].endpoint]
      ELSE IF partial # {} THEN [kind |-> "status", status |-> 405]
      ELSE IF path # RootPath
              /\ \E k \in DOMAIN Routes : Match(Routes[k], method, other) # "NONE"
        THEN [kind |-> "status", status |-> 307]
      ELSE [kind |-> "status", status |-> 404]

\* ----------------------------------------------------------------- state
VARIABLES
  clock,                \* datetime.now()
  last_updated_default, \* PersonalInfo.last_updated's default (main.py:20)
  cache,                \* the values in get_personal_info's lru_cache dict
  req,                  \* the requests in flight, one per connection
  first_info_arrival,   \* clock when the first GET /info arrived, if any
  info_sent,            \* last_updated values sent in /info responses
  first_root_sent       \* timestamp of the first GET / response, if any

vars == <<clock, last_updated_default, cache, req,
          first_info_arrival, info_sent, first_root_sent>>

Idle == [pc |-> "idle"]

\* ---------------------------------------------------------------- records
\* A default evaluated at each construction (a default_factory).
PersonalInfoAtConstruction(oid, name, bio, current_status) ==
  [oid |-> oid, name |-> name, bio |-> bio, current_status |-> current_status,
   last_updated |-> clock]

\* PersonalInfo(name=..., bio=..., current_status=...): last_updated is not
\* passed, so the instance gets the class's default.  oid is the identity
\* of the object.
PersonalInfo(oid, name, bio, current_status) ==
  [oid |-> oid, name |-> name, bio |-> bio, current_status |-> current_status,
   last_updated |-> last_updated_default]

\* A get_personal_info that passes last_updated=datetime.now() itself.
get_personal_info_now(oid) ==
  [PersonalInfo(oid, "Your Name", "Your Bio", "Available") EXCEPT !.last_updated = clock]

\* The body of get_personal_info.
get_personal_info(oid) == PersonalInfo(oid, "Your Name", "Your Bio", "Available")

\* response_model=PersonalInfo: the four declared fields.
SerializePersonalInfo(p) ==
  [name |-> p.name, bio |-> p.bio, current_status |-> p.current_status,
   last_updated |-> p.last_updated]

\* A timestamp taken once at import, as last_updated's default is.
RootBodyAtImport ==
  [status |-> "online", timestamp |-> last_updated_default]

\* The dict root() returns.
RootBody ==
  [status |-> "online", timestamp |-> clock]

\* A StudyInfo that leaves achievements at its default.
StudyBodyNoAchievements ==
  [institution |-> "Your University", course |-> "Your Course", year |-> 2024,
   achievements |-> [k \in {} |-> ""]]

\* The StudyInfo get_study_info() returns.
StudyBody ==
  [institution |-> "Your University", course |-> "Your Course", year |-> 2024,
   achievements |-> [k \in {"2024", "2023"} |->
                       IF k = "2024" THEN "Dean's List" ELSE "Best Project Award"]]

\* A wrapper that stores its result without looking at the cache again.
LruStoreAlways(c, result) == {result}

\* The lru_cache wrapper after the call: the result is stored unless the
\* key was added to the cache during the call.
LruStore(c, result) == IF c = {} THEN {result} ELSE c

\* ---------------------------------------------------------------- actions
\* main.py has just been imported, at time 0 of the clock: the class
\* statement of PersonalInfo has evaluated datetime.now() once and kept it
\* as the field's default; no request has arrived and the lru_cache is
\* empty.
Init ==
  /\ clock = 0
  /\ last_updated_default = clock
  /\ cache = {}
  /\ req = [i \in Reqs |-> Idle]
  /\ first_info_arrival = {}
  /\ info_sent = {}
  /\ first_root_sent = {}

Tick ==
  /\ clock < MaxClock
  /\ clock' = clock + 1
  /\ UNCHANGED <<last_updated_default, cache, req,
                 first_info_arrival, info_sent, first_root_sent>>

\* The framework's body for the statuses it produces itself.
Detail(status) ==
  [detail |-> IF status = 404 THEN "Not Found"
              ELSE IF status = 405 THEN "Method Not Allowed"
              ELSE "Temporary Redirect"]

\* The router answers a request it matches to no endpoint by itself: 404,
\* 405 or 307.  No coroutine of main.py is scheduled.
Reject(i, method, path) ==
  /\ req[i].pc = "idle"
  /\ Dispatch(method, path).kind = "status"
  /\ req' = [req EXCEPT ![i] = [pc |-> "done", method |-> method, path |-> path,
                                status |-> Dispatch(method, path).status,
                                body |-> Detail(Dispatch(method, path).status)]]
  /\ UNCHANGED <<clock, last_updated_default, cache,
                 first_info_arrival, info_sent, first_root_sent>>

\* One of the framework's documentation endpoints answers.
ServeDocs(i, method, path) ==
  /\ req[i].pc = "idle"
  /\ Dispatch(method, path).kind = "endpoint"
  /\ Dispatch(method, path).endpoint \in DocEndpoints
  /\ req' = [req EXCEPT ![i] = [pc |-> "done", method |-> method, path |-> path,
                                status |-> 200,
                                body |-> [content |-> Dispatch(method, path).endpoint]]]
  /\ UNCHANGED <<clock, last_updated_default, cache,
                 first_info_arrival, info_sent, first_root_sent>>

\* The router matches the request to a coroutine of main.py, which the
\* event loop runs later.
Receive(i, method, path) ==
  /\ req[i].pc = "idle"
  /\ Dispatch(method, path).kind = "endpoint"
  /\ Dispatch(method, path).endpoint \in AppEndpoints
  /\ req' = [req EXCEPT ![i] = [pc |-> "received", method |-> method, path |-> path,
                                endpoint |-> Dispatch(method, path).endpoint,
                                started |-> clock]]
  /\ first_info_arrival' =
       IF first_info_arrival = {} /\ method = "GET" /\ path = InfoPath
       THEN {clock} ELSE first_info_arrival
  /\ UNCHANGED <<clock, last_updated_default, cache, info_sent, first_root_sent>>

Respond(i, status, body) ==
  req' = [req EXCEPT ![i] = [pc |-> "done", method |-> req[i].method,
                             path |-> req[i].path, started |-> req[i].started,
                             status |-> status, body |-> body]]

\* A root that also calls get_personal_info(), warming the cache.
root_warming(i) ==
  /\ req[i].pc = "received"
  /\ req[i].endpoint = "root"
  /\ Respond(i, 200, RootBody)
  /\ first_root_sent' = IF first_root_sent = {} THEN {RootBody.timestamp}
                        ELSE first_root_sent
  /\ cache' = LruStore(cache, get_personal_info(i))
  /\ UNCHANGED <<clock, last_updated_default, first_info_arrival, info_sent>>

\* The coroutine root() runs to its return.
root(i) ==
  /\ req[i].pc = "received"
  /\ req[i].endpoint = "root"
  /\ Respond(i, 200, RootBody)
  /\ first_root_sent' = IF first_root_sent = {} THEN {RootBody.timestamp}
                        ELSE first_root_sent
  /\ UNCHANGED <<clock, last_updated_default, cache,
                 first_info_arrival, info_sent>>

\* The coroutine get_study_info() runs to its return.
get_study_info(i) ==
  /\ req[i].pc = "received"
  /\ req[i].endpoint = "get_study_info"
  /\ Respond(i, 200, StudyBody)
  /\ UNCHANGED <<clock, last_updated_default, cache,
                 first_info_arrival, info_sent, first_root_sent>>

\* get_info returns what the lru_cache wrapper returned, serialized under
\* response_model=PersonalInfo.
RespondInfo(i, result) ==
  /\ req' = [req EXCEPT ![i] = [pc |-> "done", method |-> req[i].method,
                                path |-> req[i].path, started |-> req[i].started,
                                result |-> result, status |-> 200,
                                body |-> SerializePersonalInfo(result)]]
  /\ info_sent' = info_sent \cup {result.last_updated}

\* get_info calls the lru_cache wrapper, which finds the key: the cached
\* object is returned.
get_info_hit(i) ==
  /\ req[i].pc = "received"
  /\ req[i].endpoint = "get_info"
  /\ cache # {}
  /\ RespondInfo(i, CHOOSE p \in cache : TRUE)
  /\ UNCHANGED <<clock, last_updated_default, cache,
                 first_info_arrival, first_root_sent>>

\* get_info calls the lru_cache wrapper, which does not find the key and
\* goes on to call get_personal_info.
get_info_miss(i) ==
  /\ req[i].pc = "received"
  /\ req[i].endpoint = "get_info"
  /\ cache = {}
  /\ req' = [req EXCEPT ![i].pc = "call"]
  /\ UNCHANGED <<clock, last_updated_default, cache,
                 first_info_arrival, info_sent, first_root_sent>>

\* The wrapper's call of get_personal_info constructs the record.
get_info_call(i) ==
  /\ req[i].pc = "call"
  /\ req' = [req EXCEPT ![i] = [pc |-> "store", method |-> req[i].method,
                                path |-> req[i].path, started |-> req[i].started,
                                endpoint |-> req[i].endpoint,
                                result |-> get_personal_info(i)]]
  /\ UNCHANGED <<clock, last_updated_default, cache,
                 first_info_arrival, info_sent, first_root_sent>>

\* The wrapper stores the result unless the key has been added since the
\* lookup, and returns the result of its own call.
get_info_store(i) ==
  /\ req[i].pc = "store"
  /\ cache' = LruStore(cache, req[i].result)
  /\ RespondInfo(i, req[i].result)
  /\ UNCHANGED <<clock, last_updated_default,
                 first_info_arrival, first_root_sent>>

\* The response has been sent; the connection takes the next request.
Close(i) ==
  /\ req[i].pc = "done"
  /\ req' = [req EXCEPT ![i] = Idle]
  /\ UNCHANGED <<clock, last_updated_default, cache,
                 first_info_arrival, info_sent, first_root_sent>>

Next ==
  \/ Tick
  \/ \E i \in Reqs, method \in Methods, path \in Paths : Reject(i, method, path)
  \/ \E i \in Reqs, method \in Methods, path \in Paths : ServeDocs(i, method, path)
  \/ \E i \in Reqs, method \in Methods, path \in Paths : Receive(i, method, path)
  \/ \E i \in Reqs : root(i)
  \/ \E i \in Reqs : get_study_info(i)
  \/ \E i \in Reqs : get_info_hit(i)
  \/ \E i \in Reqs : get_info_miss(i)
  \/ \E i \in Reqs : get_info_call(i)
  \/ \E i \in Reqs : get_info_store(i)
  \/ \E i \in Reqs : Close(i)

Spec == Init /\ [][Next]_vars

TypeOK ==
  /\ clock \in Times
  /\ last_updated_default \in Times
  /\ first_info_arrival \subseteq Times
  /\ first_root_sent \subseteq Times
  /\ info_sent \subseteq Times
  /\ Cardinality(cache) <= 1
  /\ \A i \in Reqs : req[i].pc \in {"idle", "received", "call", "store", "done"}

\* ----------------------------------------------------------------- claims
Done(i, method, path) ==
  /\ req[i].pc = "done"
  /\ req[i].method = method
  /\ req[i].path = path

AppPaths == {<<"">>, <<"info">>, <<"study">>}
DocPaths == {<<"openapi.json">>, <<"docs">>, <<"docs", "oauth2-redirect">>, <<"redoc">>}

\* C1: every GET /info response carries the last_updated of the first
\* GET /info response of the process (all the values ever sent are one
\* value), with name "Your Name", bio "Your Bio" and current_status
\* "Available".
C1_InfoSameLastUpdated ==
  /\ Cardinality(info_sent) <= 1
  /\ \A i \in Reqs : Done(i, "GET", InfoPath) =>
       /\ req[i].status = 200
       /\ req[i].body.name = "Your Name"
       /\ req[i].body.bio = "Your Bio"
       /\ req[i].body.current_status = "Available"
       /\ info_sent = {req[i].body.last_updated}

\* Two GET /info responses, the later one started after the clock advanced
\* and served from the cache the earlier request left.
C1_Witness ==
  \E i, j \in Reqs :
    /\ i # j
    /\ Done(i, "GET", InfoPath) /\ Done(j, "GET", InfoPath)
    /\ req[i].started < req[j].started
    /\ req[j].result \in cache
    /\ req[j].result.oid # j

\* C2: the last_updated served by GET /info is not earlier than the clock
\* at the arrival of the first GET /info request.
C2_LastUpdatedAtFirstCall ==
  \A i \in Reqs : Done(i, "GET", InfoPath) =>
    \A t \in first_info_arrival : req[i].body.last_updated >= t

\* C3: GET /info requests in flight together before the cache is filled
\* all return the same four field values, each field present and set.
C3_ConcurrentInfoAgree ==
  \A i, j \in Reqs : (Done(i, "GET", InfoPath) /\ Done(j, "GET", InfoPath)) =>
    /\ req[i].body = req[j].body
    /\ DOMAIN req[i].body = {"name", "bio", "current_status", "last_updated"}
    /\ req[i].body.name # "" /\ req[i].body.bio # ""
    /\ req[i].body.current_status # ""
    /\ req[i].body.last_updated \in Times

\* Two GET /info responses, each built from the record its own request
\* constructed: both requests missed the empty cache.
C3_Witness ==
  \E i, j \in Reqs :
    /\ i # j
    /\ Done(i, "GET", InfoPath) /\ Done(j, "GET", InfoPath)
    /\ req[i].result.oid = i
    /\ req[j].result.oid = j

\* C4: the cache is empty until the first GET /info arrives, it is filled
\* by a GET /info request that found it empty, and once filled the cached
\* object is never written again or replaced.
C4_CacheWrittenOnce ==
  /\ [](first_info_arrival = {} => cache = {})
  /\ [][ /\ cache # {} => cache' = cache
         /\ cache' # cache =>
              \E i \in Reqs : /\ req[i].pc = "store"
                              /\ req[i].method = "GET" /\ req[i].path = InfoPath
                              /\ req'[i].pc = "done"
                              /\ cache' = {req[i].result} ]_vars

\* The cache is filled and a GET /info request that had missed it has
\* finished its store without replacing the cached object.
C4_Witness ==
  \E i \in Reqs :
    /\ Done(i, "GET", InfoPath)
    /\ cache # {}
    /\ req[i].result \notin cache

\* C5: every GET / is answered 200 with status "online" and a timestamp
\* read from the clock during the request: not older than the request's
\* start, whatever was served before.
C5_RootOnlineNow ==
  \A i \in Reqs : Done(i, "GET", RootPath) =>
    /\ req[i].status = 200
    /\ req[i].body.status = "online"
    /\ req[i].started <= req[i].body.timestamp
    /\ req[i].body.timestamp <= clock

\* A GET / answered after the clock advanced past the first GET /
\* response and past the cached PersonalInfo.
C5_Witness ==
  \E i \in Reqs :
    /\ Done(i, "GET", RootPath)
    /\ \E t \in first_root_sent : t < req[i].body.timestamp
    /\ \E p \in cache : p.last_updated < req[i].started

\* C6: every GET /study is answered 200 with institution "Your
\* University", course "Your Course", year 2024 and achievements exactly
\* {"2024": "Dean's List", "2023": "Best Project Award"}, after any
\* history of requests.
C6_StudyLiteral ==
  \A i \in Reqs : Done(i, "GET", StudyPath) =>
    /\ req[i].status = 200
    /\ DOMAIN req[i].body = {"institution", "course", "year", "achievements"}
    /\ req[i].body.institution = "Your University"
    /\ req[i].body.course = "Your Course"
    /\ req[i].body.year = 2024
    /\ DOMAIN req[i].body.achievements = {"2024", "2023"}
    /\ req[i].body.achievements["2024"] = "Dean's List"
    /\ req[i].body.achievements["2023"] = "Best Project Award"

\* A GET /study answered after GET /info filled the cache and GET / was
\* served, next to an earlier GET /study response.
C6_Witness ==
  \E i, j \in Reqs :
    /\ i # j
    /\ Done(i, "GET", StudyPath) /\ Done(j, "GET", StudyPath)
    /\ req[i].started < req[j].started
    /\ cache # {}
    /\ first_root_sent # {}

C8_WrongMethodNotAllowed ==
  [][ \A i \in Reqs :
        (/\ req[i].pc = "idle" /\ req'[i].pc # "idle"
         /\ req'[i].path \in AppPaths /\ req'[i].method # "GET") =>
          /\ req'[i].pc = "done"
          /\ req'[i].status = 405
          /\ req'[i].body = [detail |-> "Method Not Allowed"]
          /\ cache' = cache
          /\ info_sent' = info_sent
          /\ first_info_arrival' = first_info_arrival
          /\ first_root_sent' = first_root_sent ]_vars

\* POST /info answered 405 before any GET /info: the cache is still empty.
C8_Witness ==
  \E i \in Reqs :
    /\ Done(i, "POST", InfoPath)
    /\ req[i].status = 405
    /\ cache = {}
    /\ first_info_arrival = {}

\* C9: once the PersonalInfo is memoized every step of every request
\* leaves its four fields as they are, and the steps of GET / and
\* GET /study requests and of rejected requests neither fill nor alter the
\* cache.
C9_RecordsFrozen ==
  [][ /\ \A p \in cache : \E q \in cache' :
           SerializePersonalInfo(q) = SerializePersonalInfo(p)
      /\ \A i \in Reqs :
           (/\ req[i].pc = "received"
            /\ req[i].path \in {RootPath, StudyPath}
            /\ req'[i] # req[i]) => cache' = cache
      /\ \A i \in Reqs :
           (req[i].pc = "idle" /\ req'[i].pc \in {"received", "done"}) => cache' = cache ]_vars

\* With the PersonalInfo memoized, GET / and GET /study have been served
\* and a request has been rejected.
C9_Witness ==
  \E i, j \in Reqs :
    /\ cache # {}
    /\ Done(i, "GET", StudyPath)
    /\ \E p \in cache : p.last_updated < req[i].started
    /\ req[j].pc = "done" /\ req[j].status = 405
    /\ first_root_sent # {}

\* C10: the last_updated of every GET /info response is at most the
\* timestamp of every GET / response of the process (the first GET /
\* response carries the least of them), GET / responses sent before the
\* first GET /info included.
C10_LastUpdatedNotAfterRoot ==
  /\ \A a \in info_sent : \A t \in first_root_sent : a <= t
  /\ \A a \in info_sent : \A i \in Reqs :
       Done(i, "GET", RootPath) => a <= req[i].body.timestamp

\* A GET / was answered before the first GET /info arrived, and a
\* GET /info has been answered since.
C10_Witness ==
  /\ info_sent # {}
  /\ \E t \in first_root_sent : \E a \in first_info_arrival : t < a
====
